---------------------------- MODULE Spec2Model ----------------------------
(***************************************************************************)
(* Event funding ledger of pallavkishor/eventfund.                         *)
(*                                                                         *)
(* The repository holds two versions of the server.  Version "A" is the    *)
(* session-auth server with a normalized contributors table                *)
(* (src/unnamed/part_000, src/server/storage.ts 436-794,                   *)
(* src/shared/schema.ts 1-279).  Version "B" is the Replit-auth server     *)
(* with owner / co-manager roles (src/unnamed/part_001,                    *)
(* src/server/storage.ts 1-434, src/shared/schema.ts 280-518).  The        *)
(* variable `variant` says which of the two programs is running.           *)
(*                                                                         *)
(* Every request handler is an async function: it runs from one `await`    *)
(* of a database statement to the next without interruption, and other     *)
(* requests may run between two statements.  One action of the model is    *)
(* one database statement together with the JavaScript that follows it up  *)
(* to the next statement.                                                  *)
(*                                                                         *)
(* Money is decimal(10,2) in the database; the model keeps it in cents.    *)
(***************************************************************************)
EXTENDS Integers, Sequences, FiniteSets, TLC

VARIABLES
    variant,        \* "A" or "B": which server version runs
    events,         \* table events: sequence of rows, id = position
    managers,       \* table event_managers: sequence of rows
    contributors,   \* table contributors (version A): id = position
    contributions,  \* table contributions: id = position
    expenses,       \* table expenses: id = position
    invitations,    \* table manager_invites / manager_invitations: token = position
    now,            \* wall clock, milliseconds
    reqs,           \* requests in flight: slot -> handler activation
    out,            \* the HTTP response the last step sent, if it sent one
    clients,        \* notifier (version A): the registry, eventId -> set of sockets
    sockets         \* notifier (version A): socket -> its readyState and eventId

vars == <<variant, events, managers, contributors, contributions, expenses,
          invitations, now, reqs, out, clients, sockets>>

-----------------------------------------------------------------------------
(* Bounds of the model *)

MaxInFlight == 2
MaxApprovalContributions == 1
MaxContributions == 2
MaxExpenses == 1
MaxSubmissions == 2
MaxNotifyContributions == 1

Slots == 1..MaxInFlight

-----------------------------------------------------------------------------
(* Principals, ids and inputs *)

Versions == {"A", "B"}
Users == {"u1", "u2", "u3"}
LedgerUsers == {"u1", "u2"}
Anon == "anon"
\* Event ids, contribution ids, expense ids and invitation tokens are generated
\* unique values (gen_random_uuid, randomUUID): the model uses the row's position
\* in its table.  UnknownId is an id no row has.
UnknownId == 0
ContributionAmounts == {0 - 50, 125}
ExpenseAmounts == {200}
NoReason == "none"
Reasons == {NoReason, "duplicate"}
NoRow == [absent |-> TRUE]
\* The WebSocket connections there may be.
Sockets == {"w1", "w2"}
\* new Map<string, Set<WebSocket>>()
NoClients == [k \in {} |-> {}]
\* A request body is a record; NoFields is the body without any key.
NoFields == [k \in {} |-> ""]

-----------------------------------------------------------------------------
(* Decimal strings *)

\* A numeric text as PostgreSQL and JavaScript print it: sign, digits before
\* the point, and `scale` digits after it (frac).
DecStr(neg, whole, frac, scale) ==
    [neg |-> neg, whole |-> whole, frac |-> frac, scale |-> scale]

Abs(x) == IF x < 0 THEN 0 - x ELSE x

\* The text of a decimal(10,2) value of `cents` cents: "3.75", "-0.50".
NumericText(cents) ==
    DecStr(cents < 0, Abs(cents) \div 100, Abs(cents) % 100, 2)

\* The literal '0' / "0" the code falls back to.
ZeroText == DecStr(FALSE, 0, 0, 0)

\* parseFloat of a decimal text, in cents (exact below 2^53 / 100).
ParseFloat(s) ==
    LET mag == s.whole * 100 + (IF s.scale = 2 THEN s.frac ELSE 0)
    IN  IF s.neg THEN 0 - mag ELSE mag

\* Number.prototype.toFixed(2) of a value given in cents.
ToFixed2(x) == NumericText(x)

-----------------------------------------------------------------------------
(* Storage: reads *)

RowIds(table) == {i \in DOMAIN table : table[i] # NoRow}

\* DatabaseStorage.getEvent / the foreign key target events.id
EventExists(id) == id \in RowIds(events)

EveryoneManages(eventId, userId) == TRUE

\* DatabaseStorage.isEventManager (both versions)
IsEventManager(eventId, userId) ==
    \E i \in RowIds(managers) :
        managers[i].eventId = eventId /\ managers[i].userId = userId

\* DatabaseStorage.getContribution
GetContribution(id) ==
    IF id \in DOMAIN contributions THEN contributions[id] ELSE NoRow

\* DatabaseStorage.getContributorByEmail: the first matching row, 0 when none
GetContributorByEmail(eventId, email) ==
    LET hits == {i \in DOMAIN contributors :
                    contributors[i].eventId = eventId /\ contributors[i].email = email}
    IN  IF hits = {} THEN 0 ELSE CHOOSE i \in hits : \A j \in hits : i <= j

\* SUM(amount) over the rows of `table` with ids in `ids`
RECURSIVE SumAmount(_, _)
SumAmount(table, ids) ==
    IF ids = {} THEN 0
    ELSE LET i == CHOOSE x \in ids : TRUE
         IN  table[i].amount + SumAmount(table, ids \ {i})

ApprovedOrPendingOf(eventId) ==
    {i \in RowIds(contributions) :
        contributions[i].eventId = eventId
        /\ contributions[i].status \in {"approved", "pending"}}

\* WHERE event_id = eventId AND status = 'approved'
ApprovedOf(eventId) ==
    {i \in RowIds(contributions) :
        contributions[i].eventId = eventId /\ contributions[i].status = "approved"}

PendingOrRejectedOf(eventId) ==
    {i \in RowIds(contributions) :
        contributions[i].eventId = eventId
        /\ contributions[i].status \in {"pending", "rejected"}}

\* WHERE event_id = eventId AND status = 'pending'
PendingOf(eventId) ==
    {i \in RowIds(contributions) :
        contributions[i].eventId = eventId /\ contributions[i].status = "pending"}

\* WHERE expenses.event_id = eventId
ExpensesOf(eventId) ==
    {i \in RowIds(expenses) : expenses[i].eventId = eventId}

\* WHERE contributors.event_id = eventId
ContributorsOf(eventId) ==
    {i \in DOMAIN contributors : contributors[i].eventId = eventId}

\* sum(contributions.amount) of drizzle: the numeric text, or NULL (NoRow)
\* when no row matches.
SumText(table, ids) ==
    IF ids = {} THEN NoRow ELSE NumericText(SumAmount(table, ids))

\* COALESCE(SUM(amount), 0): the numeric text, or 0 when no row matches.
CoalesceSumText(table, ids) ==
    IF ids = {} THEN ZeroText ELSE NumericText(SumAmount(table, ids))

\* JavaScript `text || '0'`
OrZero(text) == IF text = NoRow THEN ZeroText ELSE text

-----------------------------------------------------------------------------
(* Request handlers: common parts *)

NoUser == "none"

NoStats ==
    [totalCollected |-> ZeroText, contributorsCount |-> 0, totalContributors |-> 0,
     pendingRequests |-> 0, totalExpenses |-> ZeroText, remainingFunds |-> ZeroText]

\* A free slot.  An activation keeps the request's inputs (user, event, cid,
\* status, reason, amount, email, cEvent, token, accessCode, extras) and the
\* handler's locals (seen, contributor, stats, and subject: the event of the row
\* the handler changed).
IdleReq ==
    [kind |-> "idle", pc |-> "idle", user |-> Anon, event |-> UnknownId,
     cid |-> UnknownId, status |-> "", reason |-> NoReason, amount |-> 0,
     email |-> "", cEvent |-> UnknownId, contributor |-> 0, seen |-> NoRow,
     stats |-> NoStats, token |-> UnknownId, accessCode |-> <<>>,
     extras |-> NoFields, subject |-> UnknownId]

\* What a response tells: the status code, and of the request it answers the
\* kind, the principal, the ids it named and the statistics it returns.
\* A message of the notifier: its type, the registry key it was broadcast
\* under, the event of the contribution or expense it carries, and the sockets
\* it was sent to.
NoPush == [type |-> "none", eventId |-> UnknownId, subject |-> UnknownId, to |-> {}]

Response(code, req) ==
    [code |-> code, kind |-> req.kind, user |-> req.user, event |-> req.event,
     cid |-> req.cid, token |-> req.token, accessCode |-> req.accessCode,
     cEvent |-> req.cEvent, extras |-> req.extras, stats |-> req.stats,
     push |-> NoPush]

NoOut == Response(0, IdleReq)

InFlight(kind) == Cardinality({r \in Slots : reqs[r].kind = kind})

\* A request that arrives takes the first free slot.
Free(r) ==
    /\ reqs[r].kind = "idle"
    /\ \A q \in Slots : q < r => reqs[q].kind # "idle"

\* The handler goes on to its next statement.
Continue(r, req) ==
    /\ reqs' = [reqs EXCEPT ![r] = req]
    /\ out' = NoOut

\* The handler answers with HTTP status `code` and ends.
Reply(r, req, code) ==
    /\ reqs' = [reqs EXCEPT ![r] = IdleReq]
    /\ out' = Response(code, req)

\* clients.get(eventId)
ClientsOf(eventId) == IF eventId \in DOMAIN clients THEN clients[eventId] ELSE {}

\* broadcastToEvent(eventId, data): a send to each socket registered under
\* eventId whose readyState is OPEN.
BroadcastToEvent(eventId, type, subject) ==
    [type |-> type, eventId |-> eventId, subject |-> subject,
     to |-> {c \in ClientsOf(eventId) : sockets[c].readyState = "OPEN"}]

\* The handler broadcasts, answers and ends.
ReplyBroadcast(r, req, code, push) ==
    /\ reqs' = [reqs EXCEPT ![r] = IdleReq]
    /\ out' = [Response(code, req) EXCEPT !.push = push]

RemainingFundsClamped(totalCollected, totalExpenses) ==
    LET d == ParseFloat(totalCollected) - ParseFloat(totalExpenses)
    IN  ToFixed2(IF d < 0 THEN 0 ELSE d)

\* (parseFloat(totalCollected) - parseFloat(totalExpenses)).toFixed(2)
RemainingFunds(totalCollected, totalExpenses) ==
    ToFixed2(ParseFloat(totalCollected) - ParseFloat(totalExpenses))

-----------------------------------------------------------------------------
(* Aggregation: getEventStatistics (B) and getEventStats (A) *)

\* B: GET /api/events/:id/statistics, up to the first query of
\* getEventStatistics.
StatsStartB(r, u, e) ==
    /\ variant = "B"
    /\ Free(r)
    /\ LET req == [IdleReq EXCEPT !.kind = "stats", !.user = u, !.event = e]
       IN  IF u = Anon THEN Reply(r, req, 401)
           ELSE IF ~IsEventManager(e, u) THEN Reply(r, req, 403)
           ELSE Continue(r, [req EXCEPT !.pc = "q_collected"])
    /\ UNCHANGED <<variant, clients, sockets, events, managers, contributors,
                   contributions, expenses, invitations, now>>

\* A: GET /api/events/access/:accessCode, up to the first query of
\* getEventStats; e is the event the code names (UnknownId when none).
StatsStartA(r, e) ==
    /\ variant = "A"
    /\ Free(r)
    /\ LET req == [IdleReq EXCEPT !.kind = "stats", !.event = e]
       IN  IF ~EventExists(e) THEN Reply(r, req, 404)
           ELSE Continue(r, [req EXCEPT !.pc = "q_collected"])
    /\ UNCHANGED <<variant, clients, sockets, events, managers, contributors,
                   contributions, expenses, invitations, now>>

\* The query over approved contributions.
StatsCollected(r) ==
    /\ reqs[r].pc = "q_collected"
    /\ LET req == reqs[r]
           ids == ApprovedOf(req.event)
       IN  IF variant = "A"
           THEN Continue(r, [req EXCEPT
                    !.stats.totalCollected =
                        OrZero(CoalesceSumText(contributions, ids)),
                    !.pc = "q_contributors"])
           ELSE Continue(r, [req EXCEPT
                    !.stats.totalCollected = OrZero(SumText(contributions, ids)),
                    !.stats.contributorsCount = Cardinality(ids),
                    !.pc = "q_pending"])
    /\ UNCHANGED <<variant, clients, sockets, events, managers, contributors,
                   contributions, expenses, invitations, now>>

\* A: COUNT(DISTINCT contributors.id) of the event.
StatsContributors(r) ==
    /\ reqs[r].pc = "q_contributors"
    /\ Continue(r, [reqs[r] EXCEPT
            !.stats.totalContributors = Cardinality(ContributorsOf(reqs[r].event)),
            !.pc = "q_pending"])
    /\ UNCHANGED <<variant, clients, sockets, events, managers, contributors,
                   contributions, expenses, invitations, now>>

\* The count of pending contributions.
StatsPending(r) ==
    /\ reqs[r].pc = "q_pending"
    /\ Continue(r, [reqs[r] EXCEPT
            !.stats.pendingRequests = Cardinality(PendingOf(reqs[r].event)),
            !.pc = "q_expenses"])
    /\ UNCHANGED <<variant, clients, sockets, events, managers, contributors,
                   contributions, expenses, invitations, now>>

\* The sum of the expenses, and what follows the last query: B computes
\* remainingFunds; in A the viewer page computes `remaining` from the stats it
\* received, and the PATCH and POST /api/expenses handlers broadcast the stats.
StatsExpenses(r) ==
    /\ reqs[r].pc = "q_expenses"
    /\ LET req == reqs[r]
           ids == ExpensesOf(req.event)
           total == IF variant = "A"
                    THEN OrZero(CoalesceSumText(expenses, ids))
                    ELSE OrZero(SumText(expenses, ids))
           remaining == IF req.kind = "stats"
                        THEN RemainingFunds(req.stats.totalCollected, total)
                        ELSE req.stats.remainingFunds
           done == [req EXCEPT !.stats.totalExpenses = total,
                               !.stats.remainingFunds = remaining]
       IN  CASE req.kind = "stats" -> Reply(r, done, 200)
             [] req.kind = "transition" ->
                    ReplyBroadcast(r, done, 200,
                        BroadcastToEvent(req.event, "contribution_updated",
                                         req.subject))
             [] req.kind = "expense" ->
                    ReplyBroadcast(r, done, 200,
                        BroadcastToEvent(req.event, "expense_added", req.subject))
             [] OTHER ->
                    ReplyBroadcast(r, done, 200,
                        BroadcastToEvent(req.event, "expense_updated",
                                         req.subject))
    /\ UNCHANGED <<variant, clients, sockets, events, managers, contributors,
                   contributions, expenses, invitations, now>>

-----------------------------------------------------------------------------
(* Contributions: submission *)

\* A row of contributions as an INSERT of these values alone stores it: status
\* takes its default 'pending', approved_by and rejection_reason are NULL.
ContributionRow(eventId, amount, contributor, name) ==
    [eventId |-> eventId, amount |-> amount, status |-> "pending",
     contributor |-> contributor, name |-> name, approvedBy |-> NoUser,
     reason |-> NoReason]

\* The body of a submission: the keys the form sends, and whatever else the
\* sender adds (extras).
Body(eventId, amount, name, extras) ==
    [k \in {"eventId", "amount", "name"} \cup DOMAIN extras |->
        CASE k = "eventId" -> eventId
          [] k = "amount" -> amount
          [] k = "name" -> name
          [] OTHER -> extras[k]]

\* The columns a submission may not set: omitted by B's schema, not picked by
\* A's.
NotInsertable == {"id", "status", "approvedBy", "approvedAt", "rejectionReason",
                  "createdAt"}

Passthrough(body) == body

\* insertContributionSchema.parse(body): a zod object strips the keys that are
\* not its own.
InsertContributionSchema(body) ==
    [k \in (DOMAIN body) \ NotInsertable |-> body[k]]

\* INSERT INTO contributions ... VALUES (values): a column takes the value
\* given for it, or else its default.
InsertContribution(values, contributor) ==
    [ContributionRow(values.eventId, values.amount, contributor, values.name)
        EXCEPT !.status = IF "status" \in DOMAIN values THEN values.status ELSE @,
               !.approvedBy = IF "approvedBy" \in DOMAIN values
                              THEN values.approvedBy ELSE @,
               !.reason = IF "rejectionReason" \in DOMAIN values
                          THEN values.rejectionReason ELSE @]

\* B: POST /api/events/:id/contributions.  The insert fails on the foreign
\* key contributions.event_id when the event does not exist.
SubmitB(r, e, name, amount, extras) ==
    /\ variant = "B"
    /\ Free(r)
    /\ LET req == [IdleReq EXCEPT !.kind = "submit", !.event = e, !.cEvent = e,
                                  !.email = name, !.amount = amount,
                                  !.extras = extras]
           values == InsertContributionSchema(Body(e, amount, name, extras))
       IN  IF EventExists(e)
           THEN /\ contributions' =
                       Append(contributions, InsertContribution(values, 0))
                /\ Reply(r, [req EXCEPT !.cid = Len(contributions) + 1], 201)
           ELSE /\ Reply(r, req, 500)
                /\ UNCHANGED contributions
    /\ UNCHANGED <<variant, clients, sockets, events, managers, contributors,
                   expenses, invitations, now>>

\* A: POST /api/contributions, up to `storage.getEvent(contributor.eventId)`.
\* e is contributorData.eventId, cEvent is contributionData.eventId.
SubmitStartA(r, e, email, cEvent, amount, extras) ==
    /\ variant = "A"
    /\ Free(r)
    /\ LET req == [IdleReq EXCEPT !.kind = "submit", !.event = e, !.cEvent = cEvent,
                                  !.email = email, !.amount = amount,
                                  !.extras = extras]
       IN  IF ~EventExists(e) THEN Reply(r, req, 404)
           ELSE Continue(r, [req EXCEPT !.pc = "getContributor"])
    /\ UNCHANGED <<variant, clients, sockets, events, managers, contributors,
                   contributions, expenses, invitations, now>>

\* A: storage.getContributorByEmail
SubmitGetContributor(r) ==
    /\ reqs[r].pc = "getContributor"
    /\ LET found == GetContributorByEmail(reqs[r].event, reqs[r].email)
       IN  Continue(r, [reqs[r] EXCEPT
               !.contributor = found,
               !.pc = IF found = 0 THEN "createContributor"
                      ELSE "createContribution"])
    /\ UNCHANGED <<variant, clients, sockets, events, managers, contributors,
                   contributions, expenses, invitations, now>>

\* A: storage.createContributor
SubmitCreateContributor(r) ==
    /\ reqs[r].pc = "createContributor"
    /\ IF EventExists(reqs[r].event)
       THEN /\ contributors' = Append(contributors,
                    [eventId |-> reqs[r].event, email |-> reqs[r].email])
            /\ Continue(r, [reqs[r] EXCEPT !.contributor = Len(contributors) + 1,
                                           !.pc = "createContribution"])
       ELSE /\ Reply(r, reqs[r], 400)
            /\ UNCHANGED contributors
    /\ UNCHANGED <<variant, clients, sockets, events, managers, contributions,
                   expenses, invitations, now>>

\* A: storage.createContribution, broadcastToEvent, res.json
SubmitCreateContribution(r) ==
    /\ reqs[r].pc = "createContribution"
    /\ IF EventExists(reqs[r].cEvent)
       THEN /\ contributions' = Append(contributions,
                    InsertContribution(
                        InsertContributionSchema(
                            Body(reqs[r].cEvent, reqs[r].amount, "", reqs[r].extras)),
                        reqs[r].contributor))
            /\ ReplyBroadcast(r, [reqs[r] EXCEPT !.cid = Len(contributions) + 1],
                    200,
                    BroadcastToEvent(reqs[r].event, "new_contribution",
                                     reqs[r].cEvent))
       ELSE /\ Reply(r, reqs[r], 400)
            /\ UNCHANGED contributions
    /\ UNCHANGED <<variant, clients, sockets, events, managers, contributors,
                   expenses, invitations, now>>

-----------------------------------------------------------------------------
(* Contributions: approval and rejection *)

\* DatabaseStorage.updateContributionStatus (A): UPDATE ... WHERE id = id
UpdateContributionStatus(id, status, approvedById) ==
    IF id \in DOMAIN contributions
    THEN [contributions EXCEPT ![id].status = status, ![id].approvedBy = approvedById]
    ELSE contributions

\* DatabaseStorage.approveContribution (B): UPDATE ... WHERE id = id
ApproveContribution(id, approverId) ==
    IF id \in DOMAIN contributions
    THEN [contributions EXCEPT ![id].status = "approved", ![id].approvedBy = approverId]
    ELSE contributions

\* DatabaseStorage.rejectContribution (B): UPDATE ... WHERE id = id.  A reason
\* of undefined (NoReason) leaves the column as it is.
RejectContribution(id, reason) ==
    IF id \in DOMAIN contributions
    THEN [contributions EXCEPT
            ![id].status = "rejected",
            ![id].reason = IF reason = NoReason THEN @ ELSE reason]
    ELSE contributions

\* A: PATCH /api/contributions/:contributionId, up to storage.getContribution
PatchStart(r, u, cid, status) ==
    /\ variant = "A"
    /\ Free(r)
    /\ LET req == [IdleReq EXCEPT !.kind = "transition", !.user = u, !.cid = cid,
                                  !.status = status]
           row == GetContribution(cid)
       IN  IF u = Anon THEN Reply(r, req, 401)
           ELSE IF status \notin {"approved", "rejected"} THEN Reply(r, req, 400)
           ELSE IF row = NoRow THEN Reply(r, req, 404)
           ELSE Continue(r, [req EXCEPT
                    !.seen = [eventId |-> row.eventId, status |-> row.status],
                    !.event = row.eventId,
                    !.subject = row.eventId,
                    !.pc = "checkManager"])
    /\ UNCHANGED <<variant, clients, sockets, events, managers, contributors,
                   contributions, expenses, invitations, now>>

\* A: storage.isEventManager(contribution.eventId, req.session.userId)
PatchCheckManager(r) ==
    /\ reqs[r].pc = "checkManager"
    /\ IF ~IsEventManager(reqs[r].seen.eventId, reqs[r].user)
       THEN Reply(r, reqs[r], 403)
       ELSE Continue(r, [reqs[r] EXCEPT !.pc = "update"])
    /\ UNCHANGED <<variant, clients, sockets, events, managers, contributors,
                   contributions, expenses, invitations, now>>

\* A: storage.updateContributionStatus; getEventStats follows
PatchUpdate(r) ==
    /\ reqs[r].pc = "update"
    /\ contributions' =
           UpdateContributionStatus(reqs[r].cid, reqs[r].status, reqs[r].user)
    /\ Continue(r, [reqs[r] EXCEPT !.pc = "q_collected"])
    /\ UNCHANGED <<variant, clients, sockets, events, managers, contributors,
                   expenses, invitations, now>>

\* B: PUT /api/contributions/:id/approve
ApproveB(r, u, cid) ==
    /\ variant = "B"
    /\ Free(r)
    /\ LET req == [IdleReq EXCEPT !.kind = "transition", !.user = u, !.cid = cid,
                                  !.status = "approved"]
       IN  IF u = Anon
           THEN /\ Reply(r, req, 401)
                /\ UNCHANGED contributions
           ELSE /\ contributions' = ApproveContribution(cid, u)
                /\ Reply(r, req, 200)
    /\ UNCHANGED <<variant, clients, sockets, events, managers, contributors,
                   expenses, invitations, now>>

\* B: PUT /api/contributions/:id/reject
RejectB(r, u, cid, reason) ==
    /\ variant = "B"
    /\ Free(r)
    /\ LET req == [IdleReq EXCEPT !.kind = "transition", !.user = u, !.cid = cid,
                                  !.status = "rejected", !.reason = reason]
       IN  IF u = Anon
           THEN /\ Reply(r, req, 401)
                /\ UNCHANGED contributions
           ELSE /\ contributions' = RejectContribution(cid, reason)
                /\ Reply(r, req, 200)
    /\ UNCHANGED <<variant, clients, sockets, events, managers, contributors,
                   expenses, invitations, now>>

-----------------------------------------------------------------------------
(* Expenses *)

\* A: POST /api/expenses; B: POST /api/events/:id/expenses; both up to
\* storage.isEventManager.
ExpenseStart(r, u, e, amount) ==
    /\ Free(r)
    /\ LET req == [IdleReq EXCEPT !.kind = "expense", !.user = u, !.event = e,
                                  !.amount = amount]
       IN  IF u = Anon THEN Reply(r, req, 401)
           ELSE IF ~IsEventManager(e, u) THEN Reply(r, req, 403)
           ELSE Continue(r, [req EXCEPT !.pc = "createExpense"])
    /\ UNCHANGED <<variant, clients, sockets, events, managers, contributors,
                   contributions, expenses, invitations, now>>

\* storage.createExpense.  In A getEventStats and the broadcast follow.
ExpenseCreate(r) ==
    /\ reqs[r].pc = "createExpense"
    /\ IF EventExists(reqs[r].event)
       THEN /\ expenses' = Append(expenses,
                    [eventId |-> reqs[r].event, amount |-> reqs[r].amount,
                     addedBy |-> reqs[r].user])
            /\ IF variant = "A"
               THEN Continue(r, [reqs[r] EXCEPT !.pc = "q_collected",
                                                !.subject = reqs[r].event])
               ELSE Reply(r, reqs[r], 201)
       ELSE /\ Reply(r, reqs[r], IF variant = "A" THEN 400 ELSE 500)
            /\ UNCHANGED expenses
    /\ UNCHANGED <<variant, clients, sockets, events, managers, contributors,
                   contributions, invitations, now>>

\* DatabaseStorage.updateExpense: UPDATE expenses SET updates WHERE id = id
UpdateExpense(id, updates) ==
    IF id \in RowIds(expenses)
    THEN [expenses EXCEPT ![id] =
            [k \in DOMAIN @ |-> IF k \in DOMAIN updates THEN updates[k] ELSE @[k]]]
    ELSE expenses

\* updateExpenseSchema.parse(body) (A): of the model's columns it picks amount.
UpdateExpenseSchema(body) ==
    [k \in (DOMAIN body) \cap {"amount"} |-> body[k]]

\* insertExpenseSchema.partial().parse(body) (B): every column but id, addedBy,
\* createdAt and updatedAt, each optional.
PartialInsertExpenseSchema(body) ==
    [k \in (DOMAIN body) \ {"id", "addedBy", "createdAt", "updatedAt"} |-> body[k]]

\* A: PUT /api/expenses/:id, up to storage.getEvent(req.body.eventId)
ExpensePutStart(r, u, id, e, amount) ==
    /\ variant = "A"
    /\ Free(r)
    /\ LET req == [IdleReq EXCEPT !.kind = "expenseUpdate", !.user = u, !.cid = id,
                                  !.event = e, !.amount = amount]
       IN  IF u = Anon THEN Reply(r, req, 401)
           ELSE IF ~EventExists(e) THEN Reply(r, req, 404)
           ELSE Continue(r, [req EXCEPT !.pc = "checkBodyEvent"])
    /\ UNCHANGED <<variant, clients, sockets, events, managers, contributors,
                   contributions, expenses, invitations, now>>

\* A: storage.isEventManager(req.body.eventId, req.session.userId)
ExpensePutCheckManager(r) ==
    /\ reqs[r].pc = "checkBodyEvent"
    /\ IF ~IsEventManager(reqs[r].event, reqs[r].user)
       THEN Reply(r, reqs[r], 403)
       ELSE Continue(r, [reqs[r] EXCEPT !.pc = "updateExpense"])
    /\ UNCHANGED <<variant, clients, sockets, events, managers, contributors,
                   contributions, expenses, invitations, now>>

\* A: storage.updateExpense(id, expenseData); getEventStats(req.body.eventId)
\* follows.  subject is the event of the expense that was updated.
ExpensePutUpdate(r) ==
    /\ reqs[r].pc = "updateExpense"
    /\ LET req == reqs[r]
           body == [eventId |-> req.event, amount |-> req.amount]
       IN  /\ expenses' = UpdateExpense(req.cid, UpdateExpenseSchema(body))
           /\ Continue(r, [req EXCEPT
                    !.subject = IF req.cid \in RowIds(expenses)
                                THEN expenses[req.cid].eventId ELSE UnknownId,
                    !.pc = "q_collected"])
    /\ UNCHANGED <<variant, clients, sockets, events, managers, contributors,
                   contributions, invitations, now>>

\* B: PUT /api/expenses/:id.  body holds the keys the request sends.
ExpensePutB(r, u, id, body) ==
    /\ variant = "B"
    /\ Free(r)
    /\ LET req == [IdleReq EXCEPT !.kind = "expenseUpdate", !.user = u, !.cid = id,
                                  !.amount = body.amount]
           updates == PartialInsertExpenseSchema(body)
       IN  IF u = Anon
           THEN Reply(r, req, 401) /\ UNCHANGED expenses
           ELSE IF /\ id \in RowIds(expenses)
                   /\ "eventId" \in DOMAIN updates
                   /\ ~EventExists(updates.eventId)
           THEN Reply(r, req, 500) /\ UNCHANGED expenses
           ELSE /\ expenses' = UpdateExpense(id, updates)
                /\ Reply(r, req, 200)
    /\ UNCHANGED <<variant, clients, sockets, events, managers, contributors,
                   contributions, invitations, now>>

\* DatabaseStorage.deleteExpense: DELETE FROM expenses WHERE id = id
DeleteExpense(id) ==
    [i \in DOMAIN expenses |-> IF i = id THEN NoRow ELSE expenses[i]]

\* B: DELETE /api/expenses/:id
ExpenseDeleteB(r, u, id) ==
    /\ variant = "B"
    /\ Free(r)
    /\ LET req == [IdleReq EXCEPT !.kind = "expenseDelete", !.user = u, !.cid = id]
       IN  IF u = Anon
           THEN Reply(r, req, 401) /\ UNCHANGED expenses
           ELSE /\ expenses' = DeleteExpense(id)
                /\ Reply(r, req, 200)
    /\ UNCHANGED <<variant, clients, sockets, events, managers, contributors,
                   contributions, invitations, now>>

-----------------------------------------------------------------------------
(* The notifier (version A): WebSocket registry *)

\* The eventId of a connection whose URL has no eventId parameter (null).
NoEventId == 0 - 1

\* wss.on('connection'): a socket that connects with ?eventId= is registered
\* under that key, in a new set when the key has none; a socket that connects
\* without the parameter is not registered.
Connect(ws, eventId) ==
    /\ variant = "A"
    /\ sockets[ws].readyState = "NONE"
    /\ sockets' = [sockets EXCEPT ![ws] = [readyState |-> "OPEN",
                                           eventId |-> eventId]]
    /\ clients' = IF eventId = NoEventId THEN clients
                  ELSE [k \in DOMAIN clients \cup {eventId} |->
                          IF k = eventId THEN ClientsOf(k) \cup {ws}
                          ELSE clients[k]]
    /\ UNCHANGED <<variant, events, managers, contributors, contributions,
                   expenses, invitations, now, reqs, out>>

\* The connection starts to close: readyState is no longer OPEN; the 'close'
\* event has not been emitted yet.
SocketCloses(ws) ==
    /\ sockets[ws].readyState = "OPEN"
    /\ sockets' = [sockets EXCEPT ![ws].readyState = "CLOSING"]
    /\ UNCHANGED <<variant, clients, events, managers, contributors,
                   contributions, expenses, invitations, now, reqs, out>>

\* A close handler that takes the socket out of its set and keeps the key.
KeepsEmptySet(ws, eventId) ==
    IF eventId \notin DOMAIN clients THEN clients
    ELSE [clients EXCEPT ![eventId] = clients[eventId] \ {ws}]

\* The close handler of a registered socket: the socket leaves the set of its
\* key, and the key leaves the registry when its set is empty.
RemoveClient(ws, eventId) ==
    LET eventClients == ClientsOf(eventId) \ {ws}
    IN  IF eventId \notin DOMAIN clients THEN clients
        ELSE IF eventClients = {}
        THEN [k \in DOMAIN clients \ {eventId} |-> clients[k]]
        ELSE [clients EXCEPT ![eventId] = eventClients]

\* The 'close' event of a socket: its close handler runs, if it has one (a
\* socket that connected without eventId has none).
OnClose(ws) ==
    /\ sockets[ws].readyState = "CLOSING"
    /\ sockets' = [sockets EXCEPT ![ws].readyState = "CLOSED"]
    /\ clients' = IF sockets[ws].eventId = NoEventId THEN clients
                  ELSE RemoveClient(ws, sockets[ws].eventId)
    /\ UNCHANGED <<variant, events, managers, contributors, contributions,
                   expenses, invitations, now, reqs, out>>

-----------------------------------------------------------------------------
(* The ledger: two events with their managers, requests of every kind *)

EventRow(accessCode, createdBy) ==
    [accessCode |-> accessCode, createdBy |-> createdBy]

\* A row of event_managers.  A's table has no role column (NoRole).  via is a
\* history field: the invitation token the row was granted through (0: none).
NoRole == "n/a"
ManagerRow(eventId, userId, role, via) ==
    [eventId |-> eventId, userId |-> userId, role |-> role, via |-> via]

LedgerEvents == <<EventRow(<<"A", "A">>, "u1"), EventRow(<<"B", "B">>, "u2")>>

\* u1 owns event 1; u2 owns event 2 and co-manages event 1.
LedgerManagers(v) ==
    IF v = "A"
    THEN <<ManagerRow(1, "u1", NoRole, 0), ManagerRow(2, "u2", NoRole, 0),
           ManagerRow(1, "u2", NoRole, 0)>>
    ELSE <<ManagerRow(1, "u1", "owner", 0), ManagerRow(2, "u2", "owner", 0),
           ManagerRow(1, "u2", "co-manager", 0)>>

InitLedger ==
    /\ variant \in Versions
    /\ events = LedgerEvents
    /\ managers = LedgerManagers(variant)
    /\ contributors = <<>>
    /\ contributions = <<>>
    /\ expenses = <<>>
    /\ invitations = <<>>
    /\ now = 0
    /\ reqs = [r \in Slots |-> IdleReq]
    /\ out = NoOut
    /\ clients = NoClients
    /\ sockets = [ws \in Sockets |-> [readyState |-> "NONE", eventId |-> UnknownId]]

ContributionInputs == {UnknownId} \cup DOMAIN contributions

\* Room for one more submission among at most `max` contributions.
RoomForContribution(max) == Len(contributions) + InFlight("submit") < max

RoomForExpense(max) == Len(expenses) + InFlight("expense") < max

\* The approval workflow: submissions to both events, and approve / reject
\* requests by every principal for every contribution id.
NextApproval ==
    \E r \in Slots :
        \/ /\ RoomForContribution(MaxApprovalContributions)
           /\ \E e \in {1, 2} : SubmitB(r, e, "a@x", 125, NoFields)
        \/ /\ RoomForContribution(MaxApprovalContributions)
           /\ \E e \in {1, 2} : SubmitStartA(r, e, "a@x", e, 125, NoFields)
        \/ SubmitGetContributor(r)
        \/ SubmitCreateContributor(r)
        \/ SubmitCreateContribution(r)
        \/ \E u \in LedgerUsers \cup {Anon}, c \in ContributionInputs,
              s \in {"approved", "rejected", "pending"} : PatchStart(r, u, c, s)
        \/ PatchCheckManager(r)
        \/ PatchUpdate(r)
        \/ \E u \in LedgerUsers \cup {Anon}, c \in ContributionInputs :
              ApproveB(r, u, c)
        \/ \E u \in LedgerUsers \cup {Anon}, c \in ContributionInputs,
              x \in Reasons : RejectB(r, u, c, x)
        \/ StatsCollected(r)
        \/ StatsContributors(r)
        \/ StatsPending(r)
        \/ StatsExpenses(r)

SpecApproval == InitLedger /\ [][NextApproval]_vars

\* No request is in flight: the next one runs after the last one answered.
Quiet == \A q \in Slots : reqs[q].kind = "idle"

\* What a sender may add to the body of a submission.
Forged == [status |-> "approved", approvedBy |-> "u3", rejectionReason |-> "x"]
BodyExtras == {NoFields, Forged}

SubmitAmounts == {0 - 50, 0, 125}

\* Submissions: bodies with and without forged columns, amounts of either sign,
\* events that exist and events that do not, one request after the other.
NextSubmit ==
    \E r \in Slots :
        \/ /\ Quiet /\ RoomForContribution(MaxSubmissions)
           /\ \E e \in {1, UnknownId}, a \in SubmitAmounts, x \in BodyExtras :
                 SubmitB(r, e, "a@x", a, x)
        \/ /\ Quiet /\ RoomForContribution(MaxSubmissions)
           /\ \E e \in {1, UnknownId}, c \in {1, 2, UnknownId},
                 a \in SubmitAmounts, x \in BodyExtras :
                 SubmitStartA(r, e, "a@x", c, a, x)
        \/ SubmitGetContributor(r)
        \/ SubmitCreateContributor(r)
        \/ SubmitCreateContribution(r)

SpecSubmit == InitLedger /\ [][NextSubmit]_vars


ExpenseInputAmounts == {0 - 20, 200}

ExpenseInputs == {UnknownId} \cup DOMAIN expenses

\* The bodies of B's PUT /api/expenses/:id: an amount, with or without an
\* eventId.
ExpensePutBodies ==
    {[amount |-> 0 - 20], [amount |-> 0 - 20, eventId |-> 1],
     [amount |-> 0 - 20, eventId |-> UnknownId]}

\* Ledger writes and the notifier: submissions, expenses added and updated by
\* every principal, served one request after the other, while sockets
\* subscribe to the two events and close.
NextNotify ==
    \/ \E r \in Slots :
          /\ Quiet /\ RoomForContribution(MaxNotifyContributions)
          /\ \E e \in {1, 2}, a \in ContributionAmounts :
                SubmitB(r, e, "a@x", a, NoFields)
    \/ \E r \in Slots :
          /\ Quiet /\ RoomForContribution(MaxNotifyContributions)
          /\ \E e \in {1, 2}, c \in {1, 2}, a \in ContributionAmounts :
                SubmitStartA(r, e, "a@x", c, a, NoFields)
    \/ \E r \in Slots : SubmitGetContributor(r)
    \/ \E r \in Slots : SubmitCreateContributor(r)
    \/ \E r \in Slots : SubmitCreateContribution(r)
    \/ \E r \in Slots :
          /\ Quiet /\ RoomForExpense(MaxExpenses)
          /\ \E u \in {"u2", "u3", Anon}, e \in {1, 2}, a \in ExpenseInputAmounts :
                ExpenseStart(r, u, e, a)
    \/ \E r \in Slots : ExpenseCreate(r)
    \/ \E r \in Slots :
          /\ Quiet
          /\ \E u \in {"u1", Anon}, id \in ExpenseInputs, e \in {1, UnknownId} :
                ExpensePutStart(r, u, id, e, 0 - 20)
    \/ \E r \in Slots : ExpensePutCheckManager(r)
    \/ \E r \in Slots : ExpensePutUpdate(r)
    \/ \E r \in Slots :
          /\ Quiet
          /\ \E u \in {"u3", Anon}, id \in ExpenseInputs,
                body \in ExpensePutBodies : ExpensePutB(r, u, id, body)
    \/ \E r \in Slots :
          /\ Quiet
          /\ \E u \in {"u3", Anon}, id \in ExpenseInputs : ExpenseDeleteB(r, u, id)
    \/ \E r \in Slots : StatsCollected(r)
    \/ \E r \in Slots : StatsContributors(r)
    \/ \E r \in Slots : StatsPending(r)
    \/ \E r \in Slots : StatsExpenses(r)
    \/ \E ws \in Sockets, e \in {1, 2} : Connect(ws, e)
    \/ \E ws \in Sockets : SocketCloses(ws)
    \/ \E ws \in Sockets : OnClose(ws)

SpecNotify == InitLedger /\ [][NextNotify]_vars

\* Adding expenses: requests by a manager, by a principal without a role and by
\* nobody, for both events, two at a time, while sockets subscribe to the
\* events and close.
NextExpense ==
    \/ \E r \in Slots :
          /\ RoomForExpense(MaxExpenses)
          /\ \E u \in {"u1", "u3", Anon}, e \in {1, 2}, a \in ExpenseInputAmounts :
                ExpenseStart(r, u, e, a)
    \/ \E r \in Slots : ExpenseCreate(r)
    \/ \E r \in Slots : StatsCollected(r)
    \/ \E r \in Slots : StatsContributors(r)
    \/ \E r \in Slots : StatsPending(r)
    \/ \E r \in Slots : StatsExpenses(r)
    \/ \E ws \in Sockets, e \in {1, 2} : Connect(ws, e)
    \/ \E ws \in Sockets : SocketCloses(ws)
    \/ \E ws \in Sockets : OnClose(ws)

SpecExpense == InitLedger /\ [][NextExpense]_vars

\* The aggregation: submissions of several amounts, approvals and rejections
\* and expenses by u2, who manages both events, and statistics reads, served
\* one request after the other.
NextStats ==
    \E r \in Slots :
        \/ /\ Quiet /\ RoomForContribution(MaxContributions)
           /\ \E e \in {1, 2}, a \in ContributionAmounts : SubmitB(r, e, "a@x", a, NoFields)
        \/ /\ Quiet /\ RoomForContribution(MaxContributions)
           /\ \E e \in {1, 2}, a \in ContributionAmounts :
                 SubmitStartA(r, e, "a@x", e, a, NoFields)
        \/ SubmitGetContributor(r)
        \/ SubmitCreateContributor(r)
        \/ SubmitCreateContribution(r)
        \/ /\ Quiet
           /\ \E u \in {"u2"}, c \in DOMAIN contributions,
                 s \in {"approved", "rejected"} : PatchStart(r, u, c, s)
        \/ PatchCheckManager(r)
        \/ PatchUpdate(r)
        \/ /\ Quiet
           /\ \E u \in {"u2"}, c \in DOMAIN contributions : ApproveB(r, u, c)
        \/ /\ Quiet
           /\ \E u \in {"u2"}, c \in DOMAIN contributions :
                 RejectB(r, u, c, "duplicate")
        \/ /\ Quiet
           /\ \E u \in {"u2"}, e \in {1, 2} : StatsStartB(r, u, e)
        \/ /\ Quiet
           /\ \E e \in {1, 2} : StatsStartA(r, e)
        \/ StatsCollected(r)
        \/ StatsContributors(r)
        \/ StatsPending(r)
        \/ StatsExpenses(r)
        \/ /\ Quiet /\ RoomForExpense(MaxExpenses)
           /\ \E u \in {"u2"}, e \in {1, 2}, a \in ExpenseAmounts :
                 ExpenseStart(r, u, e, a)
        \/ ExpenseCreate(r)

SpecStats == InitLedger /\ [][NextStats]_vars

-----------------------------------------------------------------------------
(* Claims about the approval workflow, checked under SpecApproval *)

Terminal == {"approved", "rejected"}

\* C1: once a contribution's status is approved or rejected, no later approve
\* or reject request changes it.
C1_TerminalStatusNeverChanges ==
    [][\A i \in DOMAIN contributions :
          contributions[i].status \in Terminal
              => contributions'[i].status = contributions[i].status]_vars

\* Request r runs its UPDATE in this step (version A).
RunsUpdate(r) == reqs[r].pc = "update" /\ reqs'[r].pc # "update"

\* C2: of two concurrent transition requests that both read the contribution
\* as pending, only the first to run its UPDATE changes it: the UPDATE of the
\* one that finds the contribution no longer pending changes nothing.
C2_ConcurrentTransitionsHaveOneWinner ==
    [][\A r \in Slots :
          (/\ RunsUpdate(r)
           /\ reqs[r].seen.status = "pending"
           /\ contributions[reqs[r].cid].status # "pending")
              => contributions' = contributions]_vars

\* Principal u changes the status of contribution i in this step: by the
\* UPDATE of its PATCH request (A) or by its approve / reject request (B).
ChangesStatus(u, i) ==
    \/ \E r \in Slots : RunsUpdate(r) /\ reqs[r].user = u /\ reqs[r].cid = i
    \/ out'.kind = "transition" /\ out'.code = 200 /\ out'.user = u /\ out'.cid = i

\* C3: a contribution's status is changed only by a principal that holds a
\* manager role for the contribution's own event.
C3_OnlyManagersChangeStatus ==
    [][\A i \in DOMAIN contributions :
          contributions'[i].status # contributions[i].status
              => \E u \in Users :
                    /\ ChangesStatus(u, i)
                    /\ IsEventManager(contributions[i].eventId, u)]_vars

-----------------------------------------------------------------------------
(* Claims about the aggregation, checked under SpecStats *)

\* The amounts of the ledger, added up row by row.
RECURSIVE ApprovedSumTo(_, _)
ApprovedSumTo(e, n) ==
    IF n = 0 THEN 0
    ELSE (IF contributions[n].eventId = e /\ contributions[n].status = "approved"
          THEN contributions[n].amount ELSE 0) + ApprovedSumTo(e, n - 1)

ApprovedSum(e) == ApprovedSumTo(e, Len(contributions))

RECURSIVE PendingCountTo(_, _)
PendingCountTo(e, n) ==
    IF n = 0 THEN 0
    ELSE (IF contributions[n].eventId = e /\ contributions[n].status = "pending"
          THEN 1 ELSE 0) + PendingCountTo(e, n - 1)

PendingCount(e) == PendingCountTo(e, Len(contributions))

RECURSIVE ExpenseSumTo(_, _)
ExpenseSumTo(e, n) ==
    IF n = 0 THEN 0
    ELSE (IF expenses[n].eventId = e THEN expenses[n].amount ELSE 0)
         + ExpenseSumTo(e, n - 1)

ExpenseSum(e) == ExpenseSumTo(e, Len(expenses))

\* The last step answered a statistics read of event out.event.
StatsRead == out.kind = "stats" /\ out.code = 200

\* The last step answered with statistics: a statistics read, or (A) a
\* request whose handler reads the statistics for its broadcast.
StatsReturned ==
    \/ StatsRead
    \/ variant = "A" /\ out.code = 200 /\ out.kind \in {"transition", "expense"}

\* C4: a statistics read returns totalCollected equal to the sum of the
\* amounts of the event's approved contributions, and of nothing else.
C4_TotalCollectedIsApprovedSum ==
    StatsReturned => ParseFloat(out.stats.totalCollected) = ApprovedSum(out.event)

C4_Witness ==
    /\ StatsRead
    /\ \E i, j \in DOMAIN contributions :
          /\ contributions[i].eventId = out.event
          /\ contributions[i].status = "approved"
          /\ contributions[j].eventId = out.event
          /\ contributions[j].status = "approved"
          /\ contributions[i].amount # contributions[j].amount

C10_PendingRequestsIsPendingCount ==
    /\ [](StatsReturned => out.stats.pendingRequests = PendingCount(out.event))
    /\ [][\A e \in {1, 2} :
            /\ (out'.kind = "submit" /\ out'.code \in {200, 201} /\ out'.event = e)
                  => PendingCount(e)' = PendingCount(e) + 1
            /\ \A i \in DOMAIN contributions :
                  (/\ contributions[i].eventId = e
                   /\ contributions[i].status = "pending"
                   /\ contributions'[i].status \in Terminal)
                      => PendingCount(e)' = PendingCount(e) - 1]_vars

C10_Witness ==
    /\ StatsRead
    /\ out.stats.pendingRequests = 1
    /\ \E i \in DOMAIN contributions :
          contributions[i].eventId = out.event /\ contributions[i].status = "rejected"

-----------------------------------------------------------------------------
(* Manager invitations *)

MaxInvitations == 1
MaxHours == 2
MaxMillis == 1

\* The clock moves by a millisecond or by an hour.
Hour == 60 * 60 * 1000
ClockSteps == {1, Hour}

\* used_at IS NULL (B)
NullTime == 0 - 1

ExpiresAtOneHour(issueTime) == issueTime + 60 * 60 * 1000

\* new Date(Date.now() + 2 * 60 * 60 * 1000)
ExpiresAt(issueTime) == issueTime + 2 * 60 * 60 * 1000

\* A row of manager_invites (A) or manager_invitations (B); the token is the
\* row's position.  issuedAt is a history field: the clock reading expiresAt
\* was computed from.  A row that was deleted leaves NoRow.
InviteRow(eventId, email, invitedBy, issuedAt, expiresAt) ==
    IF variant = "A"
    THEN [eventId |-> eventId, email |-> email, invitedBy |-> invitedBy,
          issuedAt |-> issuedAt, expiresAt |-> expiresAt, used |-> FALSE]
    ELSE [eventId |-> eventId, email |-> email, invitedBy |-> invitedBy,
          issuedAt |-> issuedAt, expiresAt |-> expiresAt, usedAt |-> NullTime]

\* A: WHERE token = token AND used = false AND expires_at > now
GetManagerInvite(token) ==
    IF /\ token \in DOMAIN invitations
       /\ invitations[token] # NoRow
       /\ invitations[token].used = FALSE
       /\ invitations[token].expiresAt > now
    THEN invitations[token] ELSE NoRow

\* B: WHERE invite_token = token
GetManagerInvitationByToken(token) ==
    IF token \in DOMAIN invitations THEN invitations[token] ELSE NoRow

ExpiredOnly(invitation) ==
    \/ invitation = NoRow
    \/ invitation.expiresAt < now

\* B: !invitation || invitation.usedAt || invitation.expiresAt < new Date()
InvalidOrExpired(invitation) ==
    \/ invitation = NoRow
    \/ invitation.usedAt # NullTime
    \/ invitation.expiresAt < now

\* A: POST /api/invites; B: POST /api/events/:id/invite; both up to
\* storage.isEventManager.  The empty email is a body without the field.
InviteStart(r, u, e, email) ==
    /\ Free(r)
    /\ LET req == [IdleReq EXCEPT !.kind = "invite", !.user = u, !.event = e,
                                  !.email = email]
       IN  IF u = Anon THEN Reply(r, req, 401)
           ELSE IF email = "" THEN Reply(r, req, 400)
           ELSE IF ~IsEventManager(e, u) THEN Reply(r, req, 403)
           ELSE Continue(r, [req EXCEPT !.pc = "getEvent"])
    /\ UNCHANGED <<variant, clients, sockets, events, managers, contributors,
                   contributions, expenses, invitations, now>>

\* The handler reads the clock: token and expiresAt of the invitation to create.
WithExpiry(req) ==
    [req EXCEPT !.pc = "createInvite",
                !.seen = [issuedAt |-> now, expiresAt |-> ExpiresAt(now)]]

\* storage.getEvent (A), storage.getEventById (B)
InviteGetEvent(r) ==
    /\ reqs[r].pc = "getEvent"
    /\ IF ~EventExists(reqs[r].event) THEN Reply(r, reqs[r], 404)
       ELSE IF variant = "A" THEN Continue(r, WithExpiry(reqs[r]))
       ELSE Continue(r, [reqs[r] EXCEPT !.pc = "getUser"])
    /\ UNCHANGED <<variant, clients, sockets, events, managers, contributors,
                   contributions, expenses, invitations, now>>

\* B: storage.getUser of the inviter, a row of users the login wrote; then
\* createManagerInvitation up to its INSERT.
InviteGetUser(r) ==
    /\ reqs[r].pc = "getUser"
    /\ Continue(r, WithExpiry(reqs[r]))
    /\ UNCHANGED <<variant, clients, sockets, events, managers, contributors,
                   contributions, expenses, invitations, now>>

\* The INSERT of the invitation, and the mail: A answers 200 whether or not
\* the mail went out, B answers 201 or 500.
InviteCreate(r, sent) ==
    /\ reqs[r].pc = "createInvite"
    /\ LET req == reqs[r]
       IN  IF EventExists(req.event)
           THEN /\ invitations' = Append(invitations,
                        InviteRow(req.event, req.email, req.user,
                                  req.seen.issuedAt, req.seen.expiresAt))
                /\ Reply(r, [req EXCEPT !.token = Len(invitations) + 1],
                         IF variant = "A" THEN 200
                         ELSE IF sent THEN 201 ELSE 500)
           ELSE /\ Reply(r, req, IF variant = "A" THEN 400 ELSE 500)
                /\ UNCHANGED invitations
    /\ UNCHANGED <<variant, clients, sockets, events, managers, contributors,
                   contributions, expenses, now>>

\* A: POST /api/invites/:token/accept up to storage.addEventManager.
AcceptStartA(r, u, token) ==
    /\ variant = "A"
    /\ Free(r)
    /\ LET req == [IdleReq EXCEPT !.kind = "accept", !.user = u, !.token = token]
           invite == GetManagerInvite(token)
       IN  IF invite = NoRow THEN Reply(r, req, 404)
           ELSE IF u = Anon THEN Reply(r, req, 401)
           ELSE Continue(r, [req EXCEPT !.pc = "addEventManager",
                                        !.seen = [eventId |-> invite.eventId]])
    /\ UNCHANGED <<variant, clients, sockets, events, managers, contributors,
                   contributions, expenses, invitations, now>>

\* A: storage.addEventManager; (event_id, user_id) is the primary key.
AcceptAddEventManager(r) ==
    /\ reqs[r].pc = "addEventManager"
    /\ LET req == reqs[r]
       IN  IF IsEventManager(req.seen.eventId, req.user)
              \/ ~EventExists(req.seen.eventId)
           THEN /\ Reply(r, req, 500)
                /\ UNCHANGED managers
           ELSE /\ managers' = Append(managers,
                        ManagerRow(req.seen.eventId, req.user, NoRole, req.token))
                /\ Continue(r, [req EXCEPT !.pc = "useManagerInvite"])
    /\ UNCHANGED <<variant, clients, sockets, events, contributors,
                   contributions, expenses, invitations, now>>

\* A: storage.useManagerInvite: UPDATE ... SET used = true WHERE token = token
AcceptUseManagerInvite(r) ==
    /\ reqs[r].pc = "useManagerInvite"
    /\ invitations' =
          [t \in DOMAIN invitations |->
              IF t = reqs[r].token /\ invitations[t] # NoRow
              THEN [invitations[t] EXCEPT !.used = TRUE]
              ELSE invitations[t]]
    /\ Reply(r, reqs[r], 200)
    /\ UNCHANGED <<variant, clients, sockets, events, managers, contributors,
                   contributions, expenses, now>>

\* B: POST /api/invitations/:token/accept: storage.useManagerInvitation up to
\* its UPDATE.
AcceptStartB(r, u, token) ==
    /\ variant = "B"
    /\ Free(r)
    /\ LET req == [IdleReq EXCEPT !.kind = "accept", !.user = u, !.token = token]
           invitation == GetManagerInvitationByToken(token)
       IN  IF u = Anon THEN Reply(r, req, 401)
           ELSE IF InvalidOrExpired(invitation) THEN Reply(r, req, 500)
           ELSE Continue(r, [req EXCEPT
                    !.pc = "markUsed",
                    !.seen = [eventId |-> invitation.eventId,
                              invitedBy |-> invitation.invitedBy]])
    /\ UNCHANGED <<variant, clients, sockets, events, managers, contributors,
                   contributions, expenses, invitations, now>>

\* B: UPDATE manager_invitations SET used_at = now WHERE invite_token = token
AcceptMarkUsed(r) ==
    /\ reqs[r].pc = "markUsed"
    /\ invitations' = [invitations EXCEPT ![reqs[r].token].usedAt = now]
    /\ Continue(r, [reqs[r] EXCEPT !.pc = "insertManager"])
    /\ UNCHANGED <<variant, clients, sockets, events, managers, contributors,
                   contributions, expenses, now>>

\* B: INSERT INTO event_managers (..., role 'co-manager')
AcceptInsertManager(r) ==
    /\ reqs[r].pc = "insertManager"
    /\ LET req == reqs[r]
       IN  IF EventExists(req.seen.eventId)
           THEN /\ managers' = Append(managers,
                        ManagerRow(req.seen.eventId, req.user, "co-manager",
                                   req.token))
                /\ Reply(r, req, 200)
           ELSE /\ Reply(r, req, 500)
                /\ UNCHANGED managers
    /\ UNCHANGED <<variant, clients, sockets, events, contributors,
                   contributions, expenses, invitations, now>>

\* A: the hourly timer: DELETE ... WHERE used = false AND expires_at < NOW()
Stale(t) ==
    /\ invitations[t] # NoRow
    /\ invitations[t].used = FALSE
    /\ invitations[t].expiresAt < now

CleanupExpiredInvites ==
    /\ variant = "A"
    /\ \E t \in DOMAIN invitations : Stale(t)
    /\ invitations' = [t \in DOMAIN invitations |->
                          IF Stale(t) THEN NoRow ELSE invitations[t]]
    /\ out' = NoOut
    /\ UNCHANGED <<variant, clients, sockets, events, managers, contributors,
                   contributions, expenses, now, reqs>>

\* Time passes.
Tick(d) ==
    /\ now' = now + d
    /\ out' = NoOut
    /\ UNCHANGED <<variant, clients, sockets, events, managers, contributors,
                   contributions, expenses, invitations, reqs>>

RoomForInvitation == Len(invitations) + InFlight("invite") < MaxInvitations

\* The clock stays within MaxHours hours and MaxMillis milliseconds.
RoomForTick(d) ==
    IF d = Hour THEN now \div Hour < MaxHours ELSE now % Hour < MaxMillis

TokenInputs == {UnknownId} \cup DOMAIN invitations

\* Invitations to event 2 are asked for by its manager u2 and by u1, who does
\* not manage it; u1 and u3 accept them.
Inviters == {"u1", "u2", Anon}
Redeemers == {"u1", "u3", Anon}

\* Invitations issued and accepted by requests that run concurrently.
NextInvite ==
    \/ \E r \in Slots :
        \/ /\ RoomForInvitation
           /\ \E u \in Inviters, m \in {"", "a@x"} : InviteStart(r, u, 2, m)
        \/ InviteGetEvent(r)
        \/ InviteGetUser(r)
        \/ \E sent \in BOOLEAN : InviteCreate(r, sent)
        \/ \E u \in Redeemers, t \in TokenInputs : AcceptStartA(r, u, t)
        \/ AcceptAddEventManager(r)
        \/ AcceptUseManagerInvite(r)
        \/ \E u \in Redeemers, t \in TokenInputs : AcceptStartB(r, u, t)
        \/ AcceptMarkUsed(r)
        \/ AcceptInsertManager(r)
    \/ CleanupExpiredInvites
    \/ \E d \in ClockSteps : RoomForTick(d) /\ Tick(d)

SpecInvite == InitLedger /\ [][NextInvite]_vars

\* The same requests, served one after the other.
NextInviteSeq ==
    \/ \E r \in Slots :
        \/ /\ Quiet /\ RoomForInvitation
           /\ \E u \in Inviters, m \in {"", "a@x"} : InviteStart(r, u, 2, m)
        \/ InviteGetEvent(r)
        \/ InviteGetUser(r)
        \/ \E sent \in BOOLEAN : InviteCreate(r, sent)
        \/ /\ Quiet
           /\ \E u \in Redeemers, t \in TokenInputs : AcceptStartA(r, u, t)
        \/ AcceptAddEventManager(r)
        \/ AcceptUseManagerInvite(r)
        \/ /\ Quiet
           /\ \E u \in Redeemers, t \in TokenInputs : AcceptStartB(r, u, t)
        \/ AcceptMarkUsed(r)
        \/ AcceptInsertManager(r)
    \/ CleanupExpiredInvites
    \/ \E d \in ClockSteps : RoomForTick(d) /\ Tick(d)

SpecInviteSeq == InitLedger /\ [][NextInviteSeq]_vars

-----------------------------------------------------------------------------
(* Claims about invitations, checked under SpecInviteSeq and SpecInvite *)

\* The number of manager roles granted through token t.
GrantedVia(t) == Cardinality({i \in DOMAIN managers : managers[i].via = t})

\* The invitation of token t is marked used.
Used(t) ==
    /\ invitations[t] # NoRow
    /\ IF variant = "A" THEN invitations[t].used
       ELSE invitations[t].usedAt # NullTime

\* The responses of a refused accept request: the invitation is not valid
\* (404 in A, 500 in B), or the request names no principal.
Refused(response) ==
    \/ response.code = (IF variant = "A" THEN 404 ELSE 500)
    \/ response.user = Anon /\ response.code = 401

\* This step serves an accept request of token t that arrives in it, and
\* answers it at once.
AnswersArrival(t) == reqs' = reqs /\ out'.kind = "accept" /\ out'.token = t

\* This step takes in an accept request of token t and lets it go on.
AdmitsArrival(t) ==
    \E r \in Slots :
        reqs[r].kind = "idle" /\ reqs'[r].kind = "accept" /\ reqs'[r].token = t

C6_AtMostOneRedeemer == \A t \in DOMAIN invitations : GrantedVia(t) <= 1

\* The invitation of token t is there and the clock is past its expiresAt.
Lapsed(t) == invitations[t] # NoRow /\ now > invitations[t].expiresAt

-----------------------------------------------------------------------------
(* Events and their access codes *)

MaxEvents == 4
MaxLifecycleEvents == 3
MaxLifecycleContributions == 1

\* String.prototype.toUpperCase, character by character.
UpperChar(c) ==
    CASE c = "a" -> "A"
      [] c = "b" -> "B"
      [] OTHER -> c

ToUpperCase(text) == [i \in DOMAIN text |-> UpperChar(text[i])]

\* Math.random().toString(36).substring(2, 8): base-36 digits in lower case.
\* The model keeps two characters, and two of the texts.
RandomTexts == {<<"a", "a">>, <<"a", "b">>}

\* Math.random().toString(36).substring(2, 8).toUpperCase()
GenerateAccessCode(randomText) == ToUpperCase(randomText)

\* The accessCode of a request body; <<>> when the body has none.
NoCode == <<>>
SuppliedCodes == {<<"a", "a">>, <<"A", "B">>}

AccessCodeFree(accessCode, except) == TRUE

\* access_code ... UNIQUE: no row other than `except` holds the code.
AccessCodeUnique(accessCode, except) ==
    \A i \in RowIds(events) : i # except => events[i].accessCode # accessCode

\* A: POST /api/events up to the INSERT of storage.createEvent.
CreateEventA(r, u, randomText) ==
    /\ variant = "A"
    /\ Free(r)
    /\ LET accessCode == GenerateAccessCode(randomText)
           req == [IdleReq EXCEPT !.kind = "createEvent", !.user = u,
                                  !.accessCode = accessCode]
       IN  IF u = Anon
           THEN Reply(r, req, 401) /\ UNCHANGED events
           ELSE IF ~AccessCodeUnique(accessCode, UnknownId)
           THEN Reply(r, req, 400) /\ UNCHANGED events
           ELSE /\ events' = Append(events, EventRow(accessCode, u))
                /\ Continue(r, [req EXCEPT !.pc = "addCreator",
                                           !.event = Len(events) + 1])
    /\ UNCHANGED <<variant, clients, sockets, managers, contributors,
                   contributions, expenses, invitations, now>>

\* B: POST /api/events up to the first INSERT of storage.createEvent; the
\* code is the body's, or a generated one when the body has none.
CreateEventB(r, u, supplied, randomText) ==
    /\ variant = "B"
    /\ Free(r)
    /\ LET accessCode == IF supplied = NoCode THEN GenerateAccessCode(randomText)
                         ELSE supplied
           req == [IdleReq EXCEPT !.kind = "createEvent", !.user = u,
                                  !.accessCode = accessCode]
       IN  IF u = Anon
           THEN Reply(r, req, 401) /\ UNCHANGED events
           ELSE IF ~AccessCodeUnique(accessCode, UnknownId)
           THEN Reply(r, req, 500) /\ UNCHANGED events
           ELSE /\ events' = Append(events, EventRow(accessCode, u))
                /\ Continue(r, [req EXCEPT !.pc = "addCreator",
                                           !.event = Len(events) + 1])
    /\ UNCHANGED <<variant, clients, sockets, managers, contributors,
                   contributions, expenses, invitations, now>>

\* The creator's row of event_managers: addEventManager (A), role 'owner' (B).
\* It is a statement of its own, after the INSERT of the event and outside
\* any transaction; when it fails (ok = FALSE: the database refuses or cannot
\* be reached) the route's catch block answers and the event row stays.
CreateEventAddCreator(r, ok) ==
    /\ reqs[r].pc = "addCreator"
    /\ LET req == reqs[r]
       IN  IF ok
           THEN /\ managers' = Append(managers,
                       ManagerRow(req.event, req.user,
                                  IF variant = "A" THEN NoRole ELSE "owner", 0))
                /\ Reply(r, req, IF variant = "A" THEN 200 ELSE 201)
           ELSE /\ Reply(r, req, IF variant = "A" THEN 400 ELSE 500)
                /\ UNCHANGED managers
    /\ UNCHANGED <<variant, clients, sockets, events, contributors,
                   contributions, expenses, invitations, now>>

\* B: PUT /api/events/:id up to storage.isEventManager; the body may name an
\* accessCode (insertEventSchema.partial()).
UpdateEventStart(r, u, e, accessCode) ==
    /\ variant = "B"
    /\ Free(r)
    /\ LET req == [IdleReq EXCEPT !.kind = "updateEvent", !.user = u,
                                  !.event = e, !.accessCode = accessCode]
       IN  IF u = Anon THEN Reply(r, req, 401)
           ELSE IF ~IsEventManager(e, u) THEN Reply(r, req, 403)
           ELSE Continue(r, [req EXCEPT !.pc = "updateEvent"])
    /\ UNCHANGED <<variant, clients, sockets, events, managers, contributors,
                   contributions, expenses, invitations, now>>

\* B: storage.updateEvent: UPDATE events SET ...updates WHERE id = eventId
UpdateEvent(r) ==
    /\ reqs[r].pc = "updateEvent"
    /\ LET req == reqs[r]
       IN  IF req.accessCode = NoCode \/ ~EventExists(req.event)
           THEN Reply(r, req, 200) /\ UNCHANGED events
           ELSE IF ~AccessCodeUnique(req.accessCode, req.event)
           THEN Reply(r, req, 500) /\ UNCHANGED events
           ELSE /\ events' = [events EXCEPT ![req.event].accessCode = req.accessCode]
                /\ Reply(r, req, 200)
    /\ UNCHANGED <<variant, clients, sockets, managers, contributors,
                   contributions, expenses, invitations, now>>

\* ON DELETE CASCADE: the rows of a table that reference event e go with it.
CascadeDelete(table, e) ==
    [i \in DOMAIN table |->
        IF table[i] # NoRow /\ table[i].eventId = e THEN NoRow ELSE table[i]]

\* B: DELETE /api/events/:id up to storage.isEventManager
DeleteEventStart(r, u, e) ==
    /\ variant = "B"
    /\ Free(r)
    /\ LET req == [IdleReq EXCEPT !.kind = "deleteEvent", !.user = u, !.event = e]
       IN  IF u = Anon THEN Reply(r, req, 401)
           ELSE IF ~IsEventManager(e, u) THEN Reply(r, req, 403)
           ELSE Continue(r, [req EXCEPT !.pc = "deleteEvent"])
    /\ UNCHANGED <<variant, clients, sockets, events, managers, contributors,
                   contributions, expenses, invitations, now>>

\* B: storage.deleteEvent: DELETE FROM events WHERE id = eventId, with the
\* cascades of the foreign keys on events.id
DeleteEvent(r) ==
    /\ reqs[r].pc = "deleteEvent"
    /\ LET e == reqs[r].event
       IN  /\ events' = [i \in DOMAIN events |-> IF i = e THEN NoRow ELSE events[i]]
           /\ managers' = CascadeDelete(managers, e)
           /\ contributions' = CascadeDelete(contributions, e)
           /\ expenses' = CascadeDelete(expenses, e)
           /\ invitations' = CascadeDelete(invitations, e)
    /\ Reply(r, reqs[r], 200)
    /\ UNCHANGED <<variant, clients, sockets, contributors, now>>

\* DatabaseStorage.getEventByAccessCode: WHERE access_code = accessCode, the id
\* of the row, UnknownId when there is none.
GetEventByAccessCode(accessCode) ==
    IF \E i \in RowIds(events) : events[i].accessCode = accessCode
    THEN CHOOSE i \in RowIds(events) : events[i].accessCode = accessCode
    ELSE UnknownId

\* A: GET /api/events/access/:accessCode, the code as the request gives it;
\* storage.getEventStats follows.
AccessEventA(r, code) ==
    /\ variant = "A"
    /\ Free(r)
    /\ LET e == GetEventByAccessCode(code)
           req == [IdleReq EXCEPT !.kind = "stats", !.event = e,
                                  !.accessCode = code]
       IN  IF e = UnknownId THEN Reply(r, req, 404)
           ELSE Continue(r, [req EXCEPT !.pc = "q_collected"])
    /\ UNCHANGED <<variant, clients, sockets, events, managers, contributors,
                   contributions, expenses, invitations, now>>

\* B: GET /api/events/access/:code: req.params.code.toUpperCase(), then the
\* SELECT of storage.getEventByAccessCode; its getEventStatistics follows.
AccessEventB(r, code) ==
    /\ variant = "B"
    /\ Free(r)
    /\ LET e == GetEventByAccessCode(ToUpperCase(code))
           req == [IdleReq EXCEPT !.kind = "stats", !.event = e,
                                  !.accessCode = code]
       IN  IF e = UnknownId THEN Reply(r, req, 404)
           ELSE Continue(r, [req EXCEPT !.pc = "q_collected"])
    /\ UNCHANGED <<variant, clients, sockets, events, managers, contributors,
                   contributions, expenses, invitations, now>>

RoomForEvent == Len(events) < MaxEvents

\* What a createEvent request brings: a code, or none and the random text the
\* handler draws.
CreateInputs ==
    (SuppliedCodes \X {<<>>}) \cup ({NoCode} \X RandomTexts)

\* Events created by u3, and updated by u2, who manages events 1 and 2, and
\* by u3, by requests that run concurrently.
NextEvent ==
    \E r \in Slots :
        \/ /\ RoomForEvent
           /\ \E u \in {"u3", Anon}, x \in RandomTexts : CreateEventA(r, u, x)
        \/ /\ RoomForEvent
           /\ \E u \in {"u3", Anon}, in \in CreateInputs :
                 CreateEventB(r, u, in[1], in[2])
        \/ \E ok \in BOOLEAN : CreateEventAddCreator(r, ok)
        \/ \E u \in {"u2", "u3"}, e \in DOMAIN events,
              c \in SuppliedCodes : UpdateEventStart(r, u, e, c)
        \/ UpdateEvent(r)

SpecEvent == InitLedger /\ [][NextEvent]_vars

\* The codes a visitor may type.
LookupCodes == {<<"a", "a">>, <<"A", "A">>, <<"b", "a">>}

\* The life of an event: created by u3, found by its access code, given
\* contributions, and deleted, by requests of u1 (owner of event 1), u2
\* (owner of event 2, co-manager of event 1) and u3, one request after the
\* other.
NextLifecycle ==
    \/ \E r \in Slots :
          /\ Quiet /\ Len(events) < MaxLifecycleEvents
          /\ \E u \in {"u3", Anon} : CreateEventA(r, u, <<"a", "b">>)
    \/ \E r \in Slots :
          /\ Quiet /\ Len(events) < MaxLifecycleEvents
          /\ \E u \in {"u3", Anon}, supplied \in {NoCode, <<"b", "a">>} :
                CreateEventB(r, u, supplied, <<"a", "b">>)
    \/ \E r \in Slots, ok \in BOOLEAN : CreateEventAddCreator(r, ok)
    \/ \E r \in Slots :
          /\ Quiet /\ Len(contributions) < MaxLifecycleContributions
          /\ \E e \in RowIds(events) : SubmitB(r, e, "a@x", 125, NoFields)
    \/ \E r \in Slots :
          /\ Quiet
          /\ \E u \in Users \cup {Anon}, e \in DOMAIN events :
                DeleteEventStart(r, u, e)
    \/ \E r \in Slots : DeleteEvent(r)
    \/ \E r \in Slots : Quiet /\ \E code \in LookupCodes : AccessEventA(r, code)
    \/ \E r \in Slots : Quiet /\ \E code \in LookupCodes : AccessEventB(r, code)
    \/ \E r \in Slots : StatsCollected(r)
    \/ \E r \in Slots : StatsContributors(r)
    \/ \E r \in Slots : StatsPending(r)
    \/ \E r \in Slots : StatsExpenses(r)

SpecLifecycle == InitLedger /\ [][NextLifecycle]_vars

-----------------------------------------------------------------------------
(* Claims about events, checked under SpecEvent *)

\* C8: no two events have the same accessCode, whatever codes concurrent
\* createEvent requests generate or are given.
C8_AccessCodesUnique ==
    \A i, j \in RowIds(events) :
        events[i].accessCode = events[j].accessCode => i = j

\* A createEvent request was just refused for a code that an event holds,
\* while another createEvent request is in flight.
C8_Witness ==
    /\ out.kind = "createEvent"
    /\ out.code \in {400, 500}
    /\ \E i \in RowIds(events) : events[i].accessCode = out.accessCode
    /\ \E r \in Slots : reqs[r].kind = "createEvent"
    /\ Len(events) > Len(LedgerEvents)

\* ---------------------------------------------------------------------------
\* Rejection reasons
\* ---------------------------------------------------------------------------

\* C11: every contribution whose status is rejected carries a non-empty stored
\* rejection reason; a rejection without a reason does not reach 'rejected'.
C11_RejectedCarriesReason ==
    \A i \in DOMAIN contributions :
        contributions[i].status = "rejected" => contributions[i].reason # NoReason

\* ---------------------------------------------------------------------------
\* Submission
\* ---------------------------------------------------------------------------

\* The request in slot r takes the step.
Steps(r) == reqs'[r] # reqs[r]

\* C12: every contribution a submission creates is pending at creation, with no
\* approver and no rejection reason, whatever the body carries.
C12_CreatedPending ==
    [][Len(contributions') > Len(contributions) =>
        LET new == contributions'[Len(contributions')]
        IN  /\ new.status = "pending"
            /\ new.approvedBy = NoUser
            /\ new.reason = NoReason]_vars

\* A submission whose body carried status, approvedBy and rejectionReason was
\* stored.
C12_Witness ==
    /\ out.kind = "submit"
    /\ out.code \in {200, 201}
    /\ out.extras = Forged
    /\ out.cid \in DOMAIN contributions
    /\ contributions[out.cid].status = "pending"

\* C13: a submission for an event that does not exist is answered NotFound
\* (404), and none of its steps stores a contributor or a contribution.
C13_UnknownEventNotFound ==
    /\ [](out.kind = "submit" /\ ~(EventExists(out.event) /\ EventExists(out.cEvent))
            => out.code = 404)
    /\ [][\A r \in Slots :
            /\ reqs[r].kind = "submit"
            /\ ~EventExists(reqs[r].cEvent)
            /\ Steps(r)
            => /\ contributors' = contributors
               /\ contributions' = contributions]_vars

\* C14: every stored contribution and every stored expense has amount > 0.
C14_AmountsPositive ==
    /\ \A i \in RowIds(contributions) : contributions[i].amount > 0
    /\ \A i \in RowIds(expenses) : expenses[i].amount > 0

\* ---------------------------------------------------------------------------
\* Expenses
\* ---------------------------------------------------------------------------

\* u holds a manager role for event e: event_managers has the row.
HoldsRole(e, u) ==
    \E i \in RowIds(managers) : managers[i].eventId = e /\ managers[i].userId = u

\* C15: an expense is stored only for a principal who holds a manager role for
\* its event when it is added; an add-expense request by a principal without
\* the role is refused (403 Forbidden; 401 when there is no principal), stores
\* no expense and broadcasts nothing.
C15_ExpenseAddedByManager ==
    [][/\ Len(expenses') > Len(expenses) =>
            LET new == expenses'[Len(expenses')]
            IN  HoldsRole(new.eventId, new.addedBy)
       /\ (out'.kind = "expense" /\ ~HoldsRole(out'.event, out'.user)) =>
            /\ out'.code = IF out'.user = Anon THEN 401 ELSE 403
            /\ expenses' = expenses
            /\ out'.push = NoPush]_vars

\* u3, who manages nothing, was refused while a subscriber of the event was
\* connected.
C15_Witness ==
    /\ out.kind = "expense" /\ out.code = 403 /\ out.user = "u3"
    /\ \E c \in Sockets :
          sockets[c].readyState = "OPEN" /\ sockets[c].eventId = out.event

\* ---------------------------------------------------------------------------
\* The notifier
\* ---------------------------------------------------------------------------

\* C20: a message about a changed contribution or expense is sent to exactly
\* the sockets that subscribed to that row's event and are open when it is
\* broadcast.
C20_PushReachesSubjectEventOnly ==
    [][(out'.push.type # "none" /\ out'.push.subject # UnknownId /\ reqs' # reqs) =>
        out'.push.to = {c \in Sockets : /\ sockets[c].readyState = "OPEN"
                                        /\ sockets[c].eventId = out'.push.subject}]_vars

\* ---------------------------------------------------------------------------
\* Events: ownership, access code, deletion, lookup
\* ---------------------------------------------------------------------------

\* The rows of event_managers that make their holder the owner of event e: in
\* B the rows with role 'owner'; A's table has no role, and the creator's row
\* stands for it.
OwnerRows(e) ==
    {i \in RowIds(managers) :
        /\ managers[i].eventId = e
        /\ IF variant = "B" THEN managers[i].role = "owner"
           ELSE managers[i].userId = events[e].createdBy}

\* C16: in every state every existing event has exactly one owner role, held
\* by its creator.
C16_OneOwnerTheCreator ==
    \A e \in RowIds(events) :
        /\ Cardinality(OwnerRows(e)) = 1
        /\ \A i \in OwnerRows(e) : managers[i].userId = events[e].createdBy

\* C17: no step changes the accessCode of an event that exists.
C17_AccessCodeImmutable ==
    [][\A e \in RowIds(events) :
          e \in RowIds(events') => events'[e].accessCode = events[e].accessCode]_vars

IsOwner(e, u) ==
    \E i \in RowIds(managers) :
        /\ managers[i].eventId = e
        /\ managers[i].userId = u
        /\ managers[i].role = "owner"

\* C18: a delete request by a principal who is not the owner of the event is
\* refused, and no step of it changes the event, its contributions, expenses,
\* roles or invitations.
C18_OnlyOwnerDeletes ==
    [][/\ \A r \in Slots :
            (reqs[r].kind = "deleteEvent" /\ Steps(r)
                /\ ~IsOwner(reqs[r].event, reqs[r].user))
            => UNCHANGED <<events, managers, contributions, expenses, invitations>>
       /\ (out'.kind = "deleteEvent" /\ out' # out
                /\ ~IsOwner(out'.event, out'.user))
            => out'.code \in {401, 403, 404}]_vars

SameUpToCase(a, b) == ToUpperCase(a) = ToUpperCase(b)

\* C19: a lookup is answered NotFound only when no event's code equals the
\* typed code up to letter case, and the event it finds is one whose code does.
C19_LookupIgnoresCase ==
    [][/\ (out'.kind = "stats" /\ out'.accessCode # NoCode /\ out' # out
                /\ out'.code = 404)
            => \A e \in RowIds(events) :
                  ~SameUpToCase(events[e].accessCode, out'.accessCode)
       /\ \A r \in Slots :
            (reqs[r].kind = "idle" /\ reqs'[r].kind = "stats"
                /\ reqs'[r].accessCode # NoCode)
            => /\ reqs'[r].event \in RowIds(events)
               /\ SameUpToCase(events[reqs'[r].event].accessCode,
                               reqs'[r].accessCode)]_vars

\* ---------------------------------------------------------------------------
\* Notification of transitions
\* ---------------------------------------------------------------------------

\* C21: a successful approve or reject is announced: the handler that answers
\* 200 for an existing contribution has sent contribution_updated under the
\* key of that contribution's event.  The handler broadcasts just before it
\* answers and then ends, so an answer without a message is a transition that
\* is never announced.
C21_TransitionIsAnnounced ==
    (out.kind = "transition" /\ out.code = 200 /\ out.cid \in RowIds(contributions))
        => /\ out.push.type = "contribution_updated"
           /\ out.push.eventId = contributions[out.cid].eventId


\* C22: redeeming an invitation is all-or-nothing: in every state, between
\* the two writes of a redemption included, an invitation is marked used
\* exactly when a manager role was granted through it.
C22_UsedIffGranted ==
    \A t \in DOMAIN invitations :
        invitations[t] # NoRow => (Used(t) <=> GrantedVia(t) >= 1)

\* The distinct contributors of event e that have an approved contribution.
ApprovedContributors(e) == {contributions[i].name : i \in ApprovedOf(e)}

\* C23: a statistics read returns the number of distinct contributors: in B
\* those of the event with an approved contribution, in A the contributor
\* records of the event; two approved contributions of one contributor
\* count once.
C23_ContributorsCountedOnce ==
    StatsRead =>
        IF variant = "A"
        THEN out.stats.totalContributors = Cardinality(ContributorsOf(out.event))
        ELSE out.stats.contributorsCount = Cardinality(ApprovedContributors(out.event))

-----------------------------------------------------------------------------
(* The registry alone: connects and disconnects in any order *)

\* The eventId parameters of connections: the two events, the id of no event,
\* and none.
ConnectionKeys == {1, 2, UnknownId, NoEventId}

NextRegistry ==
    \E ws \in Sockets :
        \/ \E k \in ConnectionKeys : Connect(ws, k)
        \/ SocketCloses(ws)
        \/ OnClose(ws)

SpecRegistry == InitLedger /\ [][NextRegistry]_vars

\* The connection ws is registered under key k as the code left it: it
\* connected with eventId k and its 'close' event has not been handled.
ConnectedUnder(ws, k) ==
    /\ sockets[ws].readyState \in {"OPEN", "CLOSING"}
    /\ sockets[ws].eventId = k
    /\ k # NoEventId

\* C24: the registry holds exactly the connections that connected with an
\* eventId and have not closed, each under its own eventId, and maps no key
\* to an empty set.
C24_RegistryHoldsLiveConnections ==
    /\ \A k \in DOMAIN clients : clients[k] # {}
    /\ \A ws \in Sockets, k \in ConnectionKeys \cup DOMAIN clients :
           ws \in ClientsOf(k) <=> ConnectedUnder(ws, k)

\* One connection of event 1 has closed, and one of event 2 is open: the
\* registry has the key 2 alone.
C24_Witness ==
    \E ws \in Sockets, other \in Sockets :
        /\ sockets[ws].readyState = "CLOSED" /\ sockets[ws].eventId = 1
        /\ ConnectedUnder(other, 2)
        /\ DOMAIN clients = {2}

\* The codes that only the generator produces: no request body of the model
\* supplies them.
GeneratedCodes == {GenerateAccessCode(x) : x \in RandomTexts} \ SuppliedCodes

\* C25: when the generated access code of a new event is the code of an
\* existing event, the creation is retried with a fresh code: the request of
\* an authenticated principal is not answered with a failure before any
\* event row was stored.
C25_CollisionIsRetried ==
    (/\ out.kind = "createEvent"
     /\ out.user # Anon
     /\ out.accessCode \in GeneratedCodes
     /\ out.event = UnknownId)
        => out.code \in {200, 201}

-----------------------------------------------------------------------------
(* Statistics reads that run while contributions are approved *)

MaxSnapshotContributions == 2

\* Contributions of 125 to event 1, approved by u2 and never rejected, and
\* statistics reads of event 1, by requests that run concurrently; no
\* submission runs while a statistics read does, so that the contributions of
\* the event are the same rows from a read's first query to its answer.
NextSnapshot ==
    \E r \in Slots :
        \/ /\ InFlight("stats") = 0
           /\ RoomForContribution(MaxSnapshotContributions)
           /\ SubmitB(r, 1, "a@x", 125, NoFields)
        \/ /\ InFlight("stats") = 0
           /\ RoomForContribution(MaxSnapshotContributions)
           /\ SubmitStartA(r, 1, "a@x", 1, 125, NoFields)
        \/ SubmitGetContributor(r)
        \/ SubmitCreateContributor(r)
        \/ SubmitCreateContribution(r)
        \/ \E c \in DOMAIN contributions : PatchStart(r, "u2", c, "approved")
        \/ PatchCheckManager(r)
        \/ PatchUpdate(r)
        \/ \E c \in DOMAIN contributions : ApproveB(r, "u2", c)
        \/ InFlight("submit") = 0 /\ StatsStartB(r, "u2", 1)
        \/ InFlight("submit") = 0 /\ StatsStartA(r, 1)
        \/ StatsCollected(r)
        \/ StatsContributors(r)
        \/ StatsPending(r)
        \/ StatsExpenses(r)

SpecSnapshot == InitLedger /\ [][NextSnapshot]_vars

\* The contributions a statistics result counts: those in its totalCollected
\* (every amount is 125) and those in its pendingRequests.
CountedIn(stats) == (ParseFloat(stats.totalCollected) \div 125) + stats.pendingRequests

\* C26: a statistics result is the aggregation of one ledger state of the
\* read: each contribution that is pending or approved throughout the read is
\* counted in exactly one of totalCollected and pendingRequests, also when an
\* approval falls between the read's queries.
C26_ResultIsOneLedgerState ==
    StatsRead => CountedIn(out.stats) = Cardinality(ApprovedOrPendingOf(out.event))

\* C27: a stored contribution belongs to the event of the contributor it
\* references, which is the event the submission checked, also when the
\* submission named another event for the contribution.
C27_ContributionInContributorsEvent ==
    variant = "A" =>
        \A i \in RowIds(contributions) :
            LET c == contributions[i].contributor
            IN  c \in DOMAIN contributors
                    => contributors[c].eventId = contributions[i].eventId

\* The principal of the request that the step serves: the one in flight
\* before the step, or the one that arrived and was answered in it.
ActingUser ==
    IF \E r \in Slots : reqs[r].kind # "idle"
    THEN (CHOOSE u \in Users \cup {Anon} :
            \E r \in Slots : reqs[r].kind # "idle" /\ reqs[r].user = u)
    ELSE out'.user

\* C28: an expense is changed or deleted only by a step that serves a
\* principal who holds a manager role for the expense's own event; the request
\* of anyone else leaves it as it was.
C28_ExpenseChangedByItsManager ==
    [][\A i \in RowIds(expenses) :
          expenses'[i] # expenses[i] => HoldsRole(expenses[i].eventId, ActingUser)]_vars

\* C29: there is at most one contributor record per (eventId, email), also
\* after concurrent submissions with the same event and email.
C29_OneContributorPerEmail ==
    \A i \in DOMAIN contributors, j \in DOMAIN contributors :
        (/\ contributors[i].eventId = contributors[j].eventId
         /\ contributors[i].email = contributors[j].email) => i = j

-----------------------------------------------------------------------------
(* Invitations redeemed by principals who manage the event already *)

\* Invitations to event 2, issued by its owner u2 and accepted by u2 and by
\* u3, who manages nothing, one request after the other.
NextRedeem ==
    \/ \E r \in Slots :
        \/ /\ Quiet /\ RoomForInvitation
           /\ \E m \in {"", "a@x"} : InviteStart(r, "u2", 2, m)
        \/ InviteGetEvent(r)
        \/ InviteGetUser(r)
        \/ \E sent \in BOOLEAN : InviteCreate(r, sent)
        \/ /\ Quiet
           /\ \E u \in {"u2", "u3"}, t \in TokenInputs : AcceptStartA(r, u, t)
        \/ AcceptAddEventManager(r)
        \/ AcceptUseManagerInvite(r)
        \/ /\ Quiet
           /\ \E u \in {"u2", "u3"}, t \in TokenInputs : AcceptStartB(r, u, t)
        \/ AcceptMarkUsed(r)
        \/ AcceptInsertManager(r)
    \/ \E d \in ClockSteps : RoomForTick(d) /\ Tick(d)

SpecRedeem == InitLedger /\ [][NextRedeem]_vars

\* C30: there is at most one manager-role record per (eventId, userId): a
\* principal who already manages an event and redeems an invitation for it
\* gets no second record.
C30_OneRolePerManager ==
    \A i \in RowIds(managers), j \in RowIds(managers) :
        (/\ managers[i].eventId = managers[j].eventId
         /\ managers[i].userId = managers[j].userId) => i = j

=============================================================================
